---- MODULE Spec2Model ----
(***************************************************************************)
(* T2 power-limit controller: the RAPL bit-field codec of cpu_pl_gui.py    *)
(* and agents/apply_pl.py, and the read-modify-write transaction each of   *)
(* them runs against MSR 0x606 (unit scale) and MSR 0x610 (power limit).   *)
(*                                                                         *)
(* Representation.  A register value is a non-negative integer of up to 64 *)
(* bits, which is more than a TLC integer holds: it is modelled by the set *)
(* of the positions of its 1 bits (bit 0 is the least significant), so     *)
(* that &, |, << and >> are computed bit for bit as the source computes    *)
(* them.  Step counts and exponents are ordinary integers.  A preset       *)
(* wattage w is held as the integer 2*w (all catalog wattages are          *)
(* multiples of 0.5 W); a unit 1/2^n is held as its denominator 2^n; a     *)
(* decoded wattage is held in units of 2^-15 W and a decoded tau as the    *)
(* exponent e of 2^e seconds.  All of these are exact, as the float        *)
(* arithmetic of the source is on these values.                            *)
(***************************************************************************)
EXTENDS Integers, Sequences, FiniteSets, TLC

(***************************** bit arithmetic ******************************)

\* Width of an MSR value ("Read 64-bit MSR value").
WordBits == 64

\* An integer below 2^31 as a register value.
ToBits(n) == {i \in 0..30 : (n \div (2^i)) % 2 = 1}

RECURSIVE FromBits(_)
\* A register value below 2^31 as an integer.
FromBits(b) ==
    IF b = {} THEN 0
    ELSE LET i == CHOOSE x \in b : TRUE IN (2^i) + FromBits(b \ {i})

BitAnd(a, b) == a \cap b
BitOr(a, b) == a \cup b
Shr(a, n) == {i - n : i \in {j \in a : j >= n}}
Shl(a, n) == {i + n : i \in a}
\* Python's ~m, for use against operands of at most WordBits bits.
BitNot(m) == (0..(WordBits - 1)) \ m

\* 0xFFFFFFFF
Mask32 == 0..31
\* 0x7FFF, the 15-bit limit field
LimitMask == 32767
\* 0x0F, a 4-bit unit exponent
ExpMask == 15
\* 0x7F, the 7-bit time-window field
TauMask == 127

\* A 64-bit value from its four 16-bit words, most significant first.
Reg64(w3, w2, w1, w0) ==
    BitOr(BitOr(Shl(ToBits(w3), 48), Shl(ToBits(w2), 32)),
          BitOr(Shl(ToBits(w1), 16), ToBits(w0)))

RECURSIVE Log2(_)
Log2(d) == IF d <= 1 THEN 0 ELSE 1 + Log2(d \div 2)

(******************************* registers *********************************)

\* 0x606
MSR_RAPL_POWER_UNIT == 1542
\* 0x610
MSR_PKG_POWER_LIMIT == 1552

(**************************** agents/apply_pl.py ***************************)

\* decode_units, applied to the value rdmsr returned: the denominators of
\* power_unit and time_unit.
decode_units(units) ==
    LET pu == FromBits(BitAnd(units, ToBits(ExpMask)))
        tu == FromBits(BitAnd(Shr(units, 16), ToBits(ExpMask)))
    IN  [power_den |-> 2^pu, time_den |-> 2^tu]

\* int(watts / power_unit): truncation toward zero of (w2/2) * power_den.
TruncSteps(w2, power_den) == (w2 * power_den) \div 2

\* encode_power_field that forgets the bits it was to keep.
encode_power_field_no_preserve(raw, w2, power_den) ==
    BitAnd(ToBits(TruncSteps(w2, power_den)), ToBits(LimitMask))

\* encode_power_field(raw, watts, power_unit)
encode_power_field(raw, w2, power_den) ==
    LET raw_power == TruncSteps(w2, power_den)
        cleared   == BitAnd(raw, BitNot(ToBits(LimitMask)))
    IN  BitOr(cleared, BitAnd(ToBits(raw_power), ToBits(LimitMask)))

\* The Chill wattages apply_chill_profile passes, doubled.
CliPl1 == 40
CliPl2 == 56

\* apply_chill_profile's computation of new_pkg from the two values read.
CliNewPkg(u, pkg) ==
    LET lo == BitAnd(pkg, Mask32)
        hi == BitAnd(Shr(pkg, 32), Mask32)
        lo2 == encode_power_field(lo, CliPl1, u.power_den)
        hi2 == encode_power_field(hi, CliPl2, u.power_den)
    IN  BitOr(Shl(hi2, 32), lo2)

(****************************** cpu_pl_gui.py ******************************)

\* decode_power_time_units, applied to the value run_rdmsr returned.
decode_power_time_units(val) ==
    LET power_bits == FromBits(BitAnd(val, ToBits(ExpMask)))
        time_bits  == FromBits(BitAnd(Shr(val, 4), ToBits(ExpMask)))
    IN  [power_den |-> 2^power_bits, time_den |-> 2^time_bits]

\* decode_pls, applied to the decoded units and the value read from 0x610.
decode_pls(u, val) ==
    LET lower   == BitAnd(val, Mask32)
        upper   == BitAnd(Shr(val, 32), Mask32)
        pl1_raw == FromBits(BitAnd(lower, ToBits(LimitMask)))
        pl2_raw == FromBits(BitAnd(upper, ToBits(LimitMask)))
        tau_raw == FromBits(BitAnd(Shr(lower, 17), ToBits(TauMask)))
    IN  [pl1_w   |-> pl1_raw * ((2^15) \div u.power_den),
         pl2_w   |-> pl2_raw * ((2^15) \div u.power_den),
         tau_exp |-> tau_raw - Log2(u.time_den),
         val     |-> val]

\* int(round(w * power_unit)): the unit multiplied instead of divided by.
RoundStepsTimesUnit(w2, power_den) ==
    LET d == 2 * power_den
        q == w2 \div d
        r == w2 % d
    IN  IF 2 * r < d THEN q
        ELSE IF 2 * r > d THEN q + 1
        ELSE IF q % 2 = 0 THEN q ELSE q + 1

\* int(round(w / power_unit)): Python 3 rounds a tie to the even neighbour.
RoundSteps(w2, power_den) ==
    LET x == w2 * power_den
        f == x \div 2
    IN  IF x % 2 = 0 THEN f
        ELSE IF f % 2 = 0 THEN f ELSE f + 1

\* encode_pls with a 16-bit mask, 0xFFFF, for the limit field.
encode_pls_mask16(pl1_w2, pl2_w2, old, u) ==
    LET lower_old == BitAnd(old, Mask32)
        upper_old == BitAnd(Shr(old, 32), Mask32)
        pl1_raw   == RoundSteps(pl1_w2, u.power_den)
        pl2_raw   == RoundSteps(pl2_w2, u.power_den)
        lower_new == BitOr(BitAnd(lower_old, BitNot(ToBits(65535))),
                           BitAnd(ToBits(pl1_raw), ToBits(65535)))
        upper_new == BitOr(BitAnd(upper_old, BitNot(ToBits(65535))),
                           BitAnd(ToBits(pl2_raw), ToBits(65535)))
    IN  BitOr(Shl(upper_new, 32), lower_new)

\* encode_pls that updates the PL1 half only.
encode_pls_pl1_only(pl1_w2, pl2_w2, old, u) ==
    LET lower_old == BitAnd(old, Mask32)
        upper_old == BitAnd(Shr(old, 32), Mask32)
        pl1_raw   == RoundSteps(pl1_w2, u.power_den)
        lower_new == BitOr(BitAnd(lower_old, BitNot(ToBits(LimitMask))),
                           BitAnd(ToBits(pl1_raw), ToBits(LimitMask)))
    IN  BitOr(Shl(upper_old, 32), lower_new)

\* encode_pls(pl1_w, pl2_w, preserve_tau_from_val), given the units its own
\* decode_power_time_units call returned.
encode_pls(pl1_w2, pl2_w2, old, u) ==
    LET lower_old == BitAnd(old, Mask32)
        upper_old == BitAnd(Shr(old, 32), Mask32)
        pl1_raw   == RoundSteps(pl1_w2, u.power_den)
        pl2_raw   == RoundSteps(pl2_w2, u.power_den)
        lower_new == BitOr(BitAnd(lower_old, BitNot(ToBits(LimitMask))),
                           BitAnd(ToBits(pl1_raw), ToBits(LimitMask)))
        upper_new == BitOr(BitAnd(upper_old, BitNot(ToBits(LimitMask))),
                           BitAnd(ToBits(pl2_raw), ToBits(LimitMask)))
    IN  BitOr(Shl(upper_new, 32), lower_new)

\* PROFILES, wattages doubled.
PROFILES ==
    << [name |-> "Eco",    pl1 |-> 24, pl2 |-> 40],
       [name |-> "Chill",  pl1 |-> 40, pl2 |-> 56],
       [name |-> "Sport",  pl1 |-> 46, pl2 |-> 64],
       [name |-> "Full",   pl1 |-> 55, pl2 |-> 80],
       [name |-> "Stupid", pl1 |-> 60, pl2 |-> 90] >>

\* The catalog entry the radio buttons select (profile_var holds one of the
\* catalog's names, "Chill" at construction).
ProfileIds == 1..Len(PROFILES)
\* profile_var = tk.StringVar(value="Chill")
DefaultProfile == CHOOSE k \in ProfileIds : PROFILES[k].name = "Chill"

(************************** the state machine ******************************)

\* Number of operations (applies, refreshes) started in one run.
MaxOps == 2
\* Number of writes to the power-limit register by firmware or other software.
MaxExt == 1

\* Two running instances of the tool.  A is a GUI whose operator selects any
\* profile and uses both buttons; B is a GUI left at its default selection, or
\* a run of agents/apply_pl.py.
Procs == {"A", "B"}

\* Contents of the unit register on the machine: the usual value 0xA0E03
\* (power exponent 3, bits 4-7 zero, time exponent 10 in bits 16-19), and one
\* with power exponent 10 and 11 in both bits 4-7 and bits 16-19.
UnitRegs == { Reg64(0, 0, 10, \hE03), Reg64(0, 0, 11, \hBA) }

\* Contents of the power-limit register at start: a locked register with
\* limits, enable, clamp and time-window bits set; and an unlocked one with
\* every other bit of the upper half set.
InitPkgValues == { Reg64(\h8042, \h8140, \h00DD, \h80F0),
                   Reg64(\h7FFF, \hFFFF, \h0008, \h8000) }

\* What firmware or other software may write to the power-limit register.
ExtValues == { Reg64(\h8000, \h8118, \h0012, \h00C8) }

\* A local not yet assigned: a register value, and a decoded record.
NoVal == {-1}
NoRec == [none |-> TRUE]

VARIABLES
    msr,        \* register index -> value: the hardware
    pc,         \* where each instance is in its handler
    op,         \* the handler each instance runs: "apply", "refresh", "cli"
    prof,       \* the catalog entry an apply_profile run selected
    units,      \* the units most recently decoded by the instance
    old_val,    \* the value of 0x610 the handler read (old_val, pkg)
    new_val,    \* the value the handler computed and wrote (new_val, new_pkg)
    label,      \* what the handler run put in current_label, if anything
    result,     \* how the handler ended
    log,        \* the register operations of the current handler run, in order
    lastWrite,  \* history: who wrote 0x610 last, and with which wattages
    lost,       \* history: a value another agent wrote between the
                \* instance's read of 0x610 and its own write
    nOps, nExt

vars == << msr, pc, op, prof, units, old_val, new_val, label, result, log,
           lastWrite, lost, nOps, nExt >>

Rd(reg, ok) == [k |-> "rd", msr |-> reg, ok |-> ok]
Wr(reg, ok) == [k |-> "wr", msr |-> reg, ok |-> ok]

\* The instances whose read-modify-write window is open: 0x610 read, not yet
\* written.
InWindow(i) == pc[i] \in {"a_units2", "a_write", "c_write"}

\* A write of v to 0x610 by `who`, seen by the instances in their window.
NoteWrite(who, v) ==
    lost' = [j \in Procs |-> IF j # who /\ InWindow(j) THEN v ELSE lost[j]]

Append1(i, e) == log' = [log EXCEPT ![i] = Append(@, e)]

\* run_wrmsr(msr, value) / wrmsr(msr, value), when the tool succeeds.
WriteMsr(reg, v) == msr' = [msr EXCEPT ![reg] = v]

\* A write aimed at the unit register.
WriteTargetUnits == MSR_RAPL_POWER_UNIT

\* The register apply_profile and apply_chill_profile write.
WriteTarget == MSR_PKG_POWER_LIMIT

\* update_current_label ending after the unit read.
NextPcNoLimitRead(at) ==
    CASE at = "a_units"  -> "a_pl"
      [] at = "a_pl"     -> "a_units2"
      [] at = "a_units2" -> "a_write"
      [] at = "a_write"  -> "l_units"
      [] at = "l_units"  -> "done"
      [] at = "l_pl"     -> "done"
      [] at = "c_units"  -> "c_pl"
      [] at = "c_pl"     -> "c_write"
      [] at = "c_write"  -> "done"

\* Where a handler goes after the register operation at `at` succeeded.
NextPc(at) ==
    CASE at = "a_units"  -> "a_pl"
      [] at = "a_pl"     -> "a_units2"
      [] at = "a_units2" -> "a_write"
      [] at = "a_write"  -> "l_units"
      [] at = "l_units"  -> "l_pl"
      [] at = "l_pl"     -> "done"
      [] at = "c_units"  -> "c_pl"
      [] at = "c_pl"     -> "c_write"
      [] at = "c_write"  -> "done"

\* A failed register operation tried again.
ErrorPcRetry(at) == at

\* Where a handler goes after the register operation at `at` raised: the
\* exception leaves the try block (GUI) or the script (CLI).
ErrorPc(at) == "done"

\* What the handler shows when the register operation at `at` raised.
ErrorResult(at) ==
    CASE at \in {"a_units", "a_pl", "a_units2", "a_write"} -> "Error applying profile"
      [] at \in {"l_units", "l_pl"}                       -> "Error reading PLs"
      [] at \in {"c_units", "c_pl", "c_write"}            -> "raised"

InitWith(U, V) ==
    /\ \E u \in U, v \in V :
          msr = (MSR_RAPL_POWER_UNIT :> u) @@ (MSR_PKG_POWER_LIMIT :> v)
    /\ pc = [i \in Procs |-> "idle"]
    /\ op = [i \in Procs |-> "none"]
    /\ prof = [i \in Procs |-> 0]
    /\ units = [i \in Procs |-> NoRec]
    /\ old_val = [i \in Procs |-> NoVal]
    /\ new_val = [i \in Procs |-> NoVal]
    /\ label = [i \in Procs |-> NoRec]
    /\ result = [i \in Procs |-> "none"]
    /\ log = [i \in Procs |-> << >>]
    /\ lastWrite = [by |-> "init", pl1 |-> 0, pl2 |-> 0]
    /\ lost = [i \in Procs |-> NoVal]
    /\ nOps = 0
    /\ nExt = 0

\* A handler starts: its locals are fresh.
Begin(i, kind, k, at) ==
    /\ pc[i] \in {"idle", "done"}
    /\ nOps < MaxOps
    /\ nOps' = nOps + 1
    /\ pc' = [pc EXCEPT ![i] = at]
    /\ op' = [op EXCEPT ![i] = kind]
    /\ prof' = [prof EXCEPT ![i] = k]
    /\ units' = [units EXCEPT ![i] = NoRec]
    /\ old_val' = [old_val EXCEPT ![i] = NoVal]
    /\ new_val' = [new_val EXCEPT ![i] = NoVal]
    /\ label' = [label EXCEPT ![i] = NoRec]
    /\ result' = [result EXCEPT ![i] = "none"]
    /\ log' = [log EXCEPT ![i] = << >>]
    /\ lost' = [lost EXCEPT ![i] = NoVal]
    /\ UNCHANGED << msr, lastWrite, nExt >>

\* PLGui.apply_profile is entered with profile_var naming catalog entry k,
\* one of the entries K the operator of instance i selects among.
apply_profile(i, K) == \E k \in K : Begin(i, "apply", k, "a_units")

\* PLGui.update_current_label is entered from the Refresh button.
update_current_label(i) == Begin(i, "refresh", 0, "l_units")

\* apply_chill_profile is entered (agents/apply_pl.py is run).
apply_chill_profile(i) == Begin(i, "cli", 0, "c_units")

\* A register operation at pc[i] raised.
Raise(i, e) ==
    /\ Append1(i, e)
    /\ pc' = [pc EXCEPT ![i] = ErrorPc(pc[i])]
    /\ result' = [result EXCEPT ![i] =
                    IF ErrorPc(pc[i]) = "done" THEN ErrorResult(pc[i]) ELSE @]
    /\ UNCHANGED << msr, op, prof, units, old_val, new_val, label, lastWrite,
                    lost, nOps, nExt >>

\* decode_power_time_units: run_rdmsr("0x606") and the decoding; in encode_pls
\* the new register value is computed from it.
GuiReadUnits(i) ==
    /\ pc[i] \in {"a_units", "a_units2", "l_units"}
    /\ \/ LET u == decode_power_time_units(msr[MSR_RAPL_POWER_UNIT]) IN
          /\ units' = [units EXCEPT ![i] = u]
          /\ new_val' = [new_val EXCEPT ![i] =
                IF pc[i] = "a_units2"
                THEN encode_pls(PROFILES[prof[i]].pl1, PROFILES[prof[i]].pl2,
                                old_val[i], u)
                ELSE @]
          /\ Append1(i, Rd(MSR_RAPL_POWER_UNIT, TRUE))
          /\ pc' = [pc EXCEPT ![i] = NextPc(pc[i])]
          /\ UNCHANGED << msr, op, prof, old_val, label, result, lastWrite,
                          lost, nOps, nExt >>
       \/ Raise(i, Rd(MSR_RAPL_POWER_UNIT, FALSE))

\* decode_pls after its units: run_rdmsr("0x610") and the decoding.  In
\* apply_profile only the raw value is kept; in update_current_label the
\* decoded limits and tau go to the label.
GuiReadPl(i) ==
    /\ pc[i] \in {"a_pl", "l_pl"}
    /\ \/ LET d == decode_pls(units[i], msr[MSR_PKG_POWER_LIMIT]) IN
          /\ old_val' = [old_val EXCEPT ![i] = IF pc[i] = "a_pl" THEN d.val ELSE @]
          /\ label' = [label EXCEPT ![i] =
                IF pc[i] = "l_pl"
                THEN [pl1_w |-> d.pl1_w, pl2_w |-> d.pl2_w, tau_exp |-> d.tau_exp]
                ELSE @]
          /\ result' = [result EXCEPT ![i] =
                IF pc[i] = "l_pl"
                THEN (IF op[i] = "apply" THEN "applied" ELSE "refreshed")
                ELSE @]
          /\ Append1(i, Rd(MSR_PKG_POWER_LIMIT, TRUE))
          /\ pc' = [pc EXCEPT ![i] = NextPc(pc[i])]
          /\ UNCHANGED << msr, op, prof, units, new_val, lastWrite, lost, nOps, nExt >>
       \/ Raise(i, Rd(MSR_PKG_POWER_LIMIT, FALSE))

\* The write of a handler: run_wrmsr("0x610", new_val), wrmsr(MSR_PKG_POWER_LIMIT, new_pkg).
Write(i, w1, w2) ==
    \/ /\ WriteMsr(WriteTarget, new_val[i])
       /\ Append1(i, Wr(WriteTarget, TRUE))
       /\ pc' = [pc EXCEPT ![i] = NextPc(pc[i])]
       /\ result' = [result EXCEPT ![i] =
                       IF NextPc(pc[i]) = "done" THEN "applied" ELSE @]
       /\ lastWrite' = [by |-> i, pl1 |-> w1, pl2 |-> w2]
       /\ NoteWrite(i, new_val[i])
       /\ UNCHANGED << op, prof, units, old_val, new_val, label, nOps, nExt >>
    \/ Raise(i, Wr(WriteTarget, FALSE))

GuiWrite(i) ==
    /\ pc[i] = "a_write"
    /\ Write(i, PROFILES[prof[i]].pl1, PROFILES[prof[i]].pl2)

\* decode_units: rdmsr(MSR_RAPL_POWER_UNIT) and the decoding.
CliReadUnits(i) ==
    /\ pc[i] = "c_units"
    /\ \/ /\ units' = [units EXCEPT ![i] = decode_units(msr[MSR_RAPL_POWER_UNIT])]
          /\ Append1(i, Rd(MSR_RAPL_POWER_UNIT, TRUE))
          /\ pc' = [pc EXCEPT ![i] = NextPc(pc[i])]
          /\ UNCHANGED << msr, op, prof, old_val, new_val, label, result,
                          lastWrite, lost, nOps, nExt >>
       \/ Raise(i, Rd(MSR_RAPL_POWER_UNIT, FALSE))

\* pkg = rdmsr(MSR_PKG_POWER_LIMIT) and the computation of new_pkg.
CliReadPl(i) ==
    /\ pc[i] = "c_pl"
    /\ \/ /\ old_val' = [old_val EXCEPT ![i] = msr[MSR_PKG_POWER_LIMIT]]
          /\ new_val' = [new_val EXCEPT ![i] =
                           CliNewPkg(units[i], msr[MSR_PKG_POWER_LIMIT])]
          /\ Append1(i, Rd(MSR_PKG_POWER_LIMIT, TRUE))
          /\ pc' = [pc EXCEPT ![i] = NextPc(pc[i])]
          /\ UNCHANGED << msr, op, prof, units, label, result, lastWrite,
                          lost, nOps, nExt >>
       \/ Raise(i, Rd(MSR_PKG_POWER_LIMIT, FALSE))

CliWrite(i) ==
    /\ pc[i] = "c_write"
    /\ Write(i, CliPl1, CliPl2)

\* Firmware or other software writes the power-limit register.
ExternalWrite ==
    /\ nExt < MaxExt
    /\ \E v \in ExtValues :
          /\ WriteMsr(MSR_PKG_POWER_LIMIT, v)
          /\ NoteWrite("ext", v)
    /\ nExt' = nExt + 1
    /\ lastWrite' = [by |-> "ext", pl1 |-> 0, pl2 |-> 0]
    /\ UNCHANGED << pc, op, prof, units, old_val, new_val, label, result, log, nOps >>

Init == InitWith(UnitRegs, InitPkgValues)

Next ==
    \/ apply_profile("A", ProfileIds)
    \/ apply_profile("B", {DefaultProfile})
    \/ update_current_label("A")
    \/ apply_chill_profile("B")
    \/ \E i \in Procs : GuiReadUnits(i)
    \/ \E i \in Procs : GuiReadPl(i)
    \/ \E i \in Procs : GuiWrite(i)
    \/ \E i \in Procs : CliReadUnits(i)
    \/ \E i \in Procs : CliReadPl(i)
    \/ \E i \in Procs : CliWrite(i)
    \/ ExternalWrite

Spec == Init /\ [][Next]_vars

(***************** one instance alone, over the unit scales *****************)

\* Every power exponent and every time exponent in bits 16-19, with bits 4-15
\* zero or holding 0xEB (11 in bits 4-7, 14 in bits 8-11).
AllUnitRegs ==
    { Reg64(0, 0, t, (other * 16) + p) : p \in 0..15, t \in 0..15, other \in {0, \hEB} }

\* The power-limit register at start: as above, or all zeros, or all ones.
AlonePkgValues == InitPkgValues \cup { {}, 0..(WordBits - 1) }

InitAlone == InitWith(AllUnitRegs, AlonePkgValues)

NextAlone ==
    \/ apply_profile("A", ProfileIds)
    \/ update_current_label("A")
    \/ apply_chill_profile("A")
    \/ GuiReadUnits("A")
    \/ GuiReadPl("A")
    \/ GuiWrite("A")
    \/ CliReadUnits("A")
    \/ CliReadPl("A")
    \/ CliWrite("A")

SpecAlone == InitAlone /\ [][NextAlone]_vars

(******************************* the claims ********************************)

\* The handler run of instance i has written the register.
HasWritten(i) == \E k \in DOMAIN log[i] : log[i][k].k = "wr" /\ log[i][k].ok

\* The fields of a power-limit register value.
Pl1Field(v) == FromBits({b \in v : b <= 14})
Pl2Field(v) == FromBits({b - 32 : b \in {c \in v : c >= 32 /\ c <= 46}})
OtherBits(v) == {b \in v : ~(b <= 14 \/ (b >= 32 /\ b <= 46))}

\* The 4-bit exponent a unit register holds from bit `lo` up.
ExpAt(v, lo) ==
    (IF lo \in v THEN 1 ELSE 0) + (IF lo + 1 \in v THEN 2 ELSE 0)
    + (IF lo + 2 \in v THEN 4 ELSE 0) + (IF lo + 3 \in v THEN 8 ELSE 0)

\* The machine's power unit is 1/PowerDen watts.
PowerDen == 2^ExpAt(msr[MSR_RAPL_POWER_UNIT], 0)

\* Field value f is what a wattage of w2/2 W is in steps (to the nearest step,
\* either neighbour at a tie), kept to 15 bits.
FieldFrom(f, w2) ==
    \E s \in {(w2 * PowerDen) \div 2, ((w2 * PowerDen) + 1) \div 2} : f = s % (2^15)

\* A wattage of w2/2 W fits the 15-bit field.
Fits(w2) == ((w2 * PowerDen) + 1) \div 2 <= LimitMask

Abs(x) == IF x < 0 THEN -x ELSE x

\* C1: the value an apply computes and writes differs from the value it read
\* only in bits 0-14 and 32-46; every other bit, bit 15 and bit 47 included, is
\* as read, whatever the unit scale and the preset; and the value in the
\* register after the write is that value.
C1_OnlyLimitBitsChange ==
    \A i \in Procs :
        /\ new_val[i] # NoVal =>
              /\ OtherBits(new_val[i]) = OtherBits(old_val[i])
              /\ new_val[i] \subseteq 0..(WordBits - 1)
        /\ (HasWritten(i) /\ lastWrite.by = i) => msr[MSR_PKG_POWER_LIMIT] = new_val[i]

\* A GUI apply has written a step count that exceeds 15 bits over a register
\* with enable, time-window and lock bits set, and the limit changed.
C1_Witness ==
    /\ op["A"] = "apply" /\ HasWritten("A")
    /\ {15, 16, 18, 47, 63} \subseteq old_val["A"]
    /\ ~Fits(lastWrite.pl2)
    /\ Pl1Field(msr[MSR_PKG_POWER_LIMIT]) # Pl1Field(old_val["A"])
    /\ {15, 16, 18, 47, 63} \subseteq msr[MSR_PKG_POWER_LIMIT]

\* C2: an apply whose wattage needs more than 0x7FFF steps fails before the
\* write: no handler run has written with a wattage that does not fit.
C2_RangeErrorBeforeWrite ==
    \A i \in Procs :
        (HasWritten(i) /\ lastWrite.by = i) => (Fits(lastWrite.pl1) /\ Fits(lastWrite.pl2))

\* C3: in an apply, a failed register read is the last register operation of
\* the run (no retry, no write after it), and when the run ended in an error
\* raised by a read it has issued no write at all.
C3_ReadFailureNoWrite ==
    \A i \in Procs : op[i] \in {"apply", "cli"} =>
        \A k \in DOMAIN log[i] :
            (log[i][k].k = "rd" /\ ~log[i][k].ok) =>
                /\ k = Len(log[i])
                /\ pc[i] = "done"
                /\ result[i] \in {"Error applying profile", "raised"} => ~HasWritten(i)
                /\ result[i] = "Error reading PLs" => k > 4

\* The second unit read of a GUI apply failed: nothing was written.
C3_Witness ==
    /\ op["A"] = "apply" /\ pc["A"] = "done"
    /\ log["A"] = << Rd(MSR_RAPL_POWER_UNIT, TRUE), Rd(MSR_PKG_POWER_LIMIT, TRUE),
                     Rd(MSR_RAPL_POWER_UNIT, FALSE) >>
    /\ lastWrite.by = "init"
    /\ msr[MSR_PKG_POWER_LIMIT] = old_val["A"]

\* C4: every decoder yields power_unit = 2^-p and time_unit = 2^-t for the
\* exponent p in bits 0-3 and the exponent t in bits 16-19 of the unit register.
C4_UnitsDecodedExactly ==
    \A i \in Procs : units[i] # NoRec =>
        /\ units[i].power_den = 2^ExpAt(msr[MSR_RAPL_POWER_UNIT], 0)
        /\ units[i].time_den = 2^ExpAt(msr[MSR_RAPL_POWER_UNIT], 16)

\* What a query of the current limits decodes from register value v.
Query(v) == decode_pls(decode_power_time_units(msr[MSR_RAPL_POWER_UNIT]), v)

\* A decoded wattage (units of 2^-15 W) is within one step of w2/2 W.
WithinOneStep(w, w2) == Abs(w - (w2 * (2^14))) <= (2^15) \div PowerDen

\* C5: after an apply of wattages that fit, with no other write since the apply
\* read the register, a query decodes limits within one step of the preset's,
\* and the tau and the lock bit a query decoded from the value the apply read;
\* the label the GUI apply refreshes shows that query.
C5_QueryAfterApply ==
    \A i \in Procs :
        (/\ HasWritten(i) /\ lastWrite.by = i /\ lost[i] = NoVal
         /\ Fits(lastWrite.pl1) /\ Fits(lastWrite.pl2)) =>
            LET after  == Query(msr[MSR_PKG_POWER_LIMIT])
                before == Query(old_val[i])
            IN  /\ WithinOneStep(after.pl1_w, lastWrite.pl1)
                /\ WithinOneStep(after.pl2_w, lastWrite.pl2)
                /\ after.tau_exp = before.tau_exp
                /\ (63 \in after.val) = (63 \in before.val)
                /\ label[i] # NoRec =>
                      label[i] = [pl1_w |-> after.pl1_w, pl2_w |-> after.pl2_w,
                                  tau_exp |-> after.tau_exp]

\* "Full" (27.5 W / 40 W) applied at a unit of 1 W over a locked register with
\* a non-zero time window: the label shows 28 W, half a watt off.
C5_Witness ==
    /\ op["A"] = "apply" /\ result["A"] = "applied"
    /\ PROFILES[prof["A"]].name = "Full" /\ PowerDen = 1
    /\ 63 \in old_val["A"] /\ 19 \in old_val["A"]
    /\ label["A"] # NoRec
    /\ label["A"].pl1_w = 28 * (2^15)
    /\ label["A"].pl2_w = 40 * (2^15)
    /\ Pl1Field(old_val["A"]) # 28

\* C6: when another agent wrote the register between an apply's read and its
\* write, the apply's write leaves bits 0-14 and 32-46 holding its preset's
\* step counts (kept to 15 bits) and every other bit as the apply read it; the
\* run issued one write, read the register once, and reports no error of the
\* apply.
C6_ExternalWriteLost ==
    \A i \in Procs :
        (HasWritten(i) /\ lastWrite.by = i /\ lost[i] # NoVal) =>
            /\ OtherBits(msr[MSR_PKG_POWER_LIMIT]) = OtherBits(old_val[i])
            /\ FieldFrom(Pl1Field(msr[MSR_PKG_POWER_LIMIT]), lastWrite.pl1)
            /\ FieldFrom(Pl2Field(msr[MSR_PKG_POWER_LIMIT]), lastWrite.pl2)
            /\ Cardinality({k \in DOMAIN log[i] : log[i][k].k = "wr"}) = 1
            /\ \E w \in DOMAIN log[i] :
                  /\ log[i][w].k = "wr"
                  /\ Cardinality({k \in 1..w : log[i][k] = Rd(MSR_PKG_POWER_LIMIT, TRUE)}) = 1
            /\ result[i] \notin {"Error applying profile", "raised"}

\* Firmware wrote bits the apply had not read; the apply finished and reported
\* success, and the register holds none of them.
C6_Witness ==
    \E i \in Procs :
        /\ HasWritten(i) /\ lastWrite.by = i /\ result[i] = "applied"
        /\ lost[i] \in ExtValues
        /\ OtherBits(lost[i]) # OtherBits(old_val[i])
        /\ OtherBits(msr[MSR_PKG_POWER_LIMIT]) # OtherBits(lost[i])

\* C7: a handler that decoded a time unit below 2^-10 s neither writes the
\* register nor shows limits decoded with it.
C7_ImplausibleScaleRejected ==
    \A i \in Procs :
        (units[i] # NoRec /\ units[i].time_den > 2^10) =>
            (~HasWritten(i) /\ label[i] = NoRec)

\* Every write of a run targets 0x610, and a failed operation ends the run.
LogSound(l) ==
    \A k \in DOMAIN l :
        /\ l[k].k = "wr" => l[k].msr = MSR_PKG_POWER_LIMIT
        /\ ~l[k].ok => k = Len(l)

IsQueryLog(l) ==
    /\ Len(l) <= 2
    /\ \A k \in DOMAIN l :
          /\ l[k].k = "rd"
          /\ l[k].msr = (IF k = 1 THEN MSR_RAPL_POWER_UNIT ELSE MSR_PKG_POWER_LIMIT)
          /\ ~l[k].ok => k = Len(l)

\* C9: every step of a query leaves both registers as they are, and its
\* register operations are reads: 0x606, then 0x610; it ends after a failed
\* read, or after the two reads, never before.
C9_QueryReadsOnly ==
    [][\A i \in Procs :
          (op'[i] = "refresh" /\ log'[i] # log[i]) =>
              /\ msr' = msr
              /\ IsQueryLog(log'[i])
              /\ pc'[i] = "done" =>
                    (Len(log'[i]) = 2 \/ ~log'[i][Len(log'[i])].ok)
              /\ result'[i] = "refreshed" =>
                    log'[i] = << Rd(MSR_RAPL_POWER_UNIT, TRUE),
                                 Rd(MSR_PKG_POWER_LIMIT, TRUE) >>]_vars

\* A query finished with both reads, after an apply by the other instance.
C9_Witness ==
    /\ op["A"] = "refresh" /\ result["A"] = "refreshed"
    /\ Len(log["A"]) = 2
    /\ lastWrite.by = "B"
    /\ label["A"].pl1_w = 20 * (2^15)

\* C10: whenever the last write of the register was an apply's, both limit
\* fields hold the step counts of that apply's preset.
C10_LimitsFromOnePreset ==
    lastWrite.by \in Procs =>
        /\ FieldFrom(Pl1Field(msr[MSR_PKG_POWER_LIMIT]), lastWrite.pl1)
        /\ FieldFrom(Pl2Field(msr[MSR_PKG_POWER_LIMIT]), lastWrite.pl2)

\* Both instances have written, A last and with B's write inside A's window,
\* with different presets.
C10_Witness ==
    /\ HasWritten("A") /\ HasWritten("B")
    /\ lastWrite.by = "A"
    /\ lost["A"] = new_val["B"]
    /\ PROFILES[prof["A"]].name = "Sport"
    /\ Pl1Field(new_val["B"]) # Pl1Field(msr[MSR_PKG_POWER_LIMIT])
    /\ Pl2Field(new_val["B"]) # Pl2Field(msr[MSR_PKG_POWER_LIMIT])

====
